---- MODULE Spec2Model ----
(***************************************************************************)
(* Model of main.py: the XML model parser, the two builders (config.xml    *)
(* tree and meta.json list) and the configuration delta / patch classes.   *)
(*                                                                         *)
(* A Python dict is an insertion-ordered mapping; it is modelled as a      *)
(* sequence of [key, value] entries with pairwise distinct keys.  A        *)
(* Python str that the program inspects (sourceMultiplicity) is a sequence *)
(* of one-character strings; every other str is an opaque TLA+ string.     *)
(***************************************************************************)
EXTENDS Integers, Sequences, FiniteSets, TLC

VARIABLES
    pc,              \* position in the __main__ script
    classes,         \* ParserXML.classes : Dict[str, ClassElement]
    aggregations,    \* ParserXML.aggregations : List[Aggregation]
    xml_tree,        \* value returned by BuilderXML.build, None before / on failure
    xml_err,         \* exception raised by BuilderXML.build, None if none
    json_data,       \* value returned by BuilderJSON.build, None before / on failure
    json_err,        \* exception raised by BuilderJSON.build, None if none
    heap,            \* the dict objects alive in the delta part, indexed by reference
    config,          \* reference of the dict loaded from config.json
    patched_config,  \* reference of the dict loaded from patched_config.json
    base_config,     \* ConfigPatcher.base_config (a reference)
    delta,           \* the Delta object (ConfigPatcher.delta)
    result           \* reference of the dict returned by ConfigPatcher.apply

vars == <<pc, classes, aggregations, xml_tree, xml_err, json_data, json_err,
          heap, config, patched_config, base_config, delta, result>>

modelVars == <<classes, aggregations, xml_tree, xml_err, json_data, json_err>>
configVars == <<heap, config, patched_config, base_config, delta, result>>

None == "<None>"

\* the reference held by a name that is not bound to a dict yet
NullRef == 0

\* Exception('root otsutstvuet') ("root is missing"), the message transliterated
NoRootException == "Exception: root otsutstvuet"

(***************************************************************************)
(* Bounds.                                                                 *)
(***************************************************************************)
MaxAggs == 2          \* number of Aggregation elements in the input file
MaxEntries == 3       \* total number of entries of a hand-written delta
RecursionLimit == 5   \* add_nested frames the interpreter allows

NameOrder == <<"A", "B", "C">>       \* class names, in the order the input file declares them
Names == { NameOrder[i] : i \in 1..Len(NameOrder) }
Rank(n) == CHOOSE i \in 1..Len(NameOrder) : NameOrder[i] = n
Keys == {"a", "b", "c"}              \* configuration keys
Values == {1, 2}                     \* configuration values
Multiplicities == { <<"1">>, <<"0", ".", ".", "*">> }

(***************************************************************************)
(* dict operations                                                         *)
(***************************************************************************)
DictKeys(d) == { d[i].key : i \in 1..Len(d) }

HasKey(d, k) == \E i \in 1..Len(d) : d[i].key = k

IndexOf(d, k) == CHOOSE i \in 1..Len(d) : d[i].key = k

Get(d, k) == d[IndexOf(d, k)].value

\* d[k] = v : an existing key keeps its position, a new key is appended
DictSet(d, k, v) ==
    IF HasKey(d, k)
    THEN [d EXCEPT ![IndexOf(d, k)] = [key |-> k, value |-> v]]
    ELSE Append(d, [key |-> k, value |-> v])

\* faulty variant of DictPop: removes nothing
DictPopNoop(d, k) == d

\* d.pop(k, None)
DictPop(d, k) == SelectSeq(d, LAMBDA e : e.key # k)

(***************************************************************************)
(* ClassElement, Aggregation, ParserXML                                    *)
(***************************************************************************)
\* the Attribute children of the Class element named n, as (name, type) pairs
AttributeElements(n) ==
    CASE n = "A" -> << <<"x", "int">>, <<"y", "str">> >>
      [] n = "B" -> << <<"y", "string">> >>
      [] OTHER   -> << >>

RECURSIVE add_attribute(_, _)
\* ClassElement.add_attribute applied to every pair of attrs, in order
add_attribute(attributes, attrs) ==
    IF attrs = <<>> THEN attributes
    ELSE add_attribute(DictSet(attributes, Head(attrs)[1], Head(attrs)[2]), Tail(attrs))

ClassElement(name, is_root, documentation, attrs) ==
    [name |-> name, is_root |-> is_root, documentation |-> documentation,
     attributes |-> add_attribute(<<>>, attrs)]

Aggregation(source, target, sourceMultiplicity, targetMultiplicity) ==
    [source |-> source, target |-> target,
     sourceMultiplicity |-> sourceMultiplicity,
     targetMultiplicity |-> targetMultiplicity]

InitModel ==
    /\ pc = "parse"
    /\ classes = <<>>
    /\ aggregations = <<>>
    /\ xml_tree = None
    /\ xml_err = None
    /\ json_data = None
    /\ json_err = None
    /\ heap = <<>>
    /\ config = NullRef
    /\ patched_config = NullRef
    /\ base_config = NullRef
    /\ delta = None
    /\ result = NullRef

\* one iteration of the loop of ParserXML.parse on a Class element; the input
\* file declares its classes in the order of NameOrder, and may declare a name
\* again (the later element then replaces the earlier one)
ParseClass(class_name, isRoot) ==
    /\ pc = "parse"
    /\ \A k \in DictKeys(classes) : Rank(k) <= Rank(class_name)
    /\ classes' = DictSet(classes, class_name,
                          ClassElement(class_name, isRoot, "", AttributeElements(class_name)))
    /\ UNCHANGED <<pc, aggregations, xml_tree, xml_err, json_data, json_err, configVars>>

\* one iteration of the loop of ParserXML.parse on an Aggregation element
ParseAggregation(source, target, sourceMultiplicity) ==
    /\ pc = "parse"
    /\ Len(aggregations) < MaxAggs
    /\ aggregations' = Append(aggregations,
                              Aggregation(source, target, sourceMultiplicity, <<"1">>))
    /\ UNCHANGED <<pc, classes, xml_tree, xml_err, json_data, json_err, configVars>>

(***************************************************************************)
(* BuilderXML                                                              *)
(***************************************************************************)
\* an ETree.Element: tag, text and the ordered list of sub-elements
Element(tag, text, children) == [tag |-> tag, text |-> text, children |-> children]

\* faulty variant of IsRoot: takes any class for the root
IsRootAlways(class_element) == TRUE

\* the test of the root scan
IsRoot(class_element) == class_element.is_root

\* the for/else scan of build: index of the first root class, 0 when the loop
\* ends without break
FindRoot ==
    IF \E i \in 1..Len(classes) : IsRoot(classes[i].value)
    THEN CHOOSE i \in 1..Len(classes) :
            /\ IsRoot(classes[i].value)
            /\ \A j \in 1..(i - 1) : ~IsRoot(classes[j].value)
    ELSE 0

\* faulty variant of SubElement: the new element becomes the first child
AppendChildFirst(children, child) == <<child>> \o children

\* ETree.SubElement(parent, ...) : the new element becomes the last child
SubElement(children, child) == Append(children, child)

RECURSIVE add_attributes_from(_, _, _)
\* the loop of add_attributes from the i-th attribute on: each attribute gets
\* a sub-element tagged with its name, whose text is its type
add_attributes_from(children, class_element, i) ==
    IF i > Len(class_element.attributes) THEN children
    ELSE add_attributes_from(
             SubElement(children, Element(class_element.attributes[i].key,
                                          class_element.attributes[i].value, <<>>)),
             class_element, i + 1)

\* add_attributes on an element that has no sub-element yet
add_attributes(class_element) == add_attributes_from(<<>>, class_element, 1)

\* faulty variant of IsNested: follows the edge from its source
IsNestedBySource(aggregation, target_class_name) == aggregation.source = target_class_name

\* the test of the loop of add_nested
IsNested(aggregation, target_class_name) == aggregation.target = target_class_name

RECURSIVE add_nested(_, _, _, _)
\* add_nested(parent_element, target_class_name), from the i-th aggregation of
\* its loop on, in the depth-th nested call; children are the sub-elements the
\* parent has so far.  Returns the exception raised (None if none) and the
\* parent's sub-elements afterwards.
add_nested(children, target_class_name, i, depth) ==
    IF i > Len(aggregations) THEN [err |-> None, children |-> children]
    ELSE LET aggregation == aggregations[i] IN
         IF ~IsNested(aggregation, target_class_name)
         THEN add_nested(children, target_class_name, i + 1, depth)
         ELSE IF ~HasKey(classes, aggregation.source)
         THEN [err |-> "KeyError", children |-> children]
         ELSE IF depth + 1 > RecursionLimit
         THEN [err |-> "RecursionError", children |-> children]
         ELSE LET source_class == Get(classes, aggregation.source)
                  sub == add_nested(add_attributes(source_class), source_class.name,
                                    1, depth + 1)
                  child_element == Element(source_class.name, None, sub.children)
              IN IF sub.err # None
                 THEN [err |-> sub.err, children |-> SubElement(children, child_element)]
                 ELSE add_nested(SubElement(children, child_element),
                                 target_class_name, i + 1, depth)

\* BuilderXML.build: the exception raised and the tree returned
build_xml ==
    IF FindRoot = 0 THEN [err |-> NoRootException, tree |-> None]
    ELSE LET root_class == classes[FindRoot].value
             nested == add_nested(add_attributes(root_class), root_class.name, 1, 1)
         IN IF nested.err # None
            THEN [err |-> nested.err, tree |-> None]
            ELSE [err |-> None, tree |-> Element(root_class.name, None, nested.children)]

BuildXML ==
    /\ pc = "parse"
    /\ pc' = "xml"
    /\ xml_tree' = build_xml.tree
    /\ xml_err' = build_xml.err
    /\ UNCHANGED <<classes, aggregations, json_data, json_err, configVars>>

(***************************************************************************)
(* BuilderJSON                                                             *)
(***************************************************************************)
RECURSIVE _get_nested_classes(_, _)
\* the loop of _get_nested_classes from the i-th aggregation on
_get_nested_classes(nested_classes, i) ==
    IF i > Len(aggregations) THEN nested_classes
    ELSE LET target == aggregations[i].target
             source == aggregations[i].source
             withKey == IF ~HasKey(nested_classes, target)
                        THEN DictSet(nested_classes, target, <<>>)
                        ELSE nested_classes
         IN _get_nested_classes(
                DictSet(withKey, target, Append(Get(withKey, target), source)), i + 1)

\* '..' in s
ContainsDots(s) == \E i \in 1..(Len(s) - 1) : s[i] = "." /\ s[i + 1] = "."

RECURSIVE SplitFrom(_, _, _)
\* s.split('..') from position i on, cur being the part collected so far
SplitFrom(s, i, cur) ==
    IF i > Len(s) THEN <<cur>>
    ELSE IF i < Len(s) /\ s[i] = "." /\ s[i + 1] = "."
         THEN <<cur>> \o SplitFrom(s, i + 2, <<>>)
         ELSE SplitFrom(s, i + 1, Append(cur, s[i]))

Split(s) == SplitFrom(s, 1, <<>>)

\* the if/else of _get_multiplicities: the exception of the tuple unpacking
\* (None if none), min_val and max_val
ParseMultiplicity(sourceMultiplicity) ==
    IF ContainsDots(sourceMultiplicity)
    THEN LET parts == Split(sourceMultiplicity)
         IN IF Len(parts) = 2
            THEN [err |-> None, min |-> parts[1], max |-> parts[2]]
            ELSE [err |-> "ValueError", min |-> None, max |-> None]
    ELSE [err |-> None, min |-> sourceMultiplicity, max |-> sourceMultiplicity]

\* faulty variant of SetMultiplicity: keeps the first value of a source
SetMultiplicityFirstWins(multiplicities, source, m) ==
    IF HasKey(multiplicities, source) THEN multiplicities
    ELSE DictSet(multiplicities, source, m)

\* multiplicities[source] = {'min': min_val, 'max': max_val}
SetMultiplicity(multiplicities, source, m) == DictSet(multiplicities, source, m)

RECURSIVE _get_multiplicities(_, _)
\* the loop of _get_multiplicities from the i-th aggregation on: the exception
\* raised (None if none) and the dict returned
_get_multiplicities(multiplicities, i) ==
    IF i > Len(aggregations) THEN [err |-> None, multiplicities |-> multiplicities]
    ELSE LET source == aggregations[i].source
             parsed == ParseMultiplicity(aggregations[i].sourceMultiplicity)
         IN IF parsed.err # None
            THEN [err |-> parsed.err, multiplicities |-> multiplicities]
            ELSE _get_multiplicities(
                     SetMultiplicity(multiplicities, source,
                                     [min |-> parsed.min, max |-> parsed.max]),
                     i + 1)

\* class_name in multiplicities
HasMultiplicity(class_name, multiplicities) == HasKey(multiplicities, class_name)

RECURSIVE attribute_params(_, _, _)
\* the loop over class_element.attributes of _build_class_dict, from the i-th on
attribute_params(parameters, attributes, i) ==
    IF i > Len(attributes) THEN parameters
    ELSE attribute_params(
             Append(parameters, [name |-> attributes[i].key, type |-> attributes[i].value]),
             attributes, i + 1)

RECURSIVE nested_params(_, _, _)
\* the loop over nested_classes[class_name] of _build_class_dict, from the i-th on
nested_params(parameters, nested, i) ==
    IF i > Len(nested) THEN parameters
    ELSE nested_params(Append(parameters, [name |-> nested[i], type |-> "class"]),
                       nested, i + 1)

_build_class_dict(class_name, class_element, nested_classes, multiplicities) ==
    LET class_dict == [class |-> class_name,
                       documentation |-> class_element.documentation,
                       isRoot |-> class_element.is_root]
        with_minmax ==
            IF HasMultiplicity(class_name, multiplicities)
            THEN class_dict @@ [min |-> Get(multiplicities, class_name).min,
                                max |-> Get(multiplicities, class_name).max]
            ELSE class_dict
        attrParams == attribute_params(<<>>, class_element.attributes, 1)
        parameters == IF HasKey(nested_classes, class_name)
                      THEN nested_params(attrParams, Get(nested_classes, class_name), 1)
                      ELSE attrParams
    IN with_minmax @@ [parameters |-> parameters]

RECURSIVE build_json_from(_, _, _, _)
\* the loop of build over self.classes.items(), from the i-th class on
build_json_from(json_list, nested_classes, multiplicities, i) ==
    IF i > Len(classes) THEN json_list
    ELSE build_json_from(
             Append(json_list, _build_class_dict(classes[i].key, classes[i].value,
                                                 nested_classes, multiplicities)),
             nested_classes, multiplicities, i + 1)

\* BuilderJSON.build: the exception raised (None if none) and the list returned
build_json ==
    LET nested_classes == _get_nested_classes(<<>>, 1)
        multiplicities == _get_multiplicities(<<>>, 1)
    IN IF multiplicities.err # None
       THEN [err |-> multiplicities.err, json_list |-> None]
       ELSE [err |-> None,
             json_list |-> build_json_from(<<>>, nested_classes,
                                           multiplicities.multiplicities, 1)]

BuildJSON ==
    /\ \/ pc = "parse"
       \/ pc = "xml" /\ xml_err = None
    /\ pc' = IF pc = "xml" THEN "done" ELSE "json"
    /\ json_data' = build_json.json_list
    /\ json_err' = build_json.err
    /\ UNCHANGED <<classes, aggregations, xml_tree, xml_err, configVars>>

NextModel ==
    \/ \E n \in Names, r \in BOOLEAN : ParseClass(n, r)
    \/ \E s \in Names, t \in Names, m \in Multiplicities : ParseAggregation(s, t, m)
    \/ BuildXML
    \/ BuildJSON

SpecModel == InitModel /\ [][NextModel]_vars

(***************************************************************************)
(* Delta                                                                   *)
(***************************************************************************)
Delta(additions, deletions, updates) ==
    [additions |-> additions, deletions |-> deletions, updates |-> updates]

\* faulty variant of KeyIn: finds no key
KeyInNever(key, cfg) == FALSE

\* key in cfg
KeyIn(key, cfg) == HasKey(cfg, key)

\* faulty variant of NotEqual: reports every pair as different
NotEqualAlways(a, b) == TRUE

\* a != b
NotEqual(a, b) == a # b

RECURSIVE from_configs_new(_, _, _, _, _)
\* the loop over new_config of from_configs, from its i-th key on: the
\* additions and updates lists at the end of the loop
from_configs_new(old_config, new_config, i, additions, updates) ==
    IF i > Len(new_config) THEN [additions |-> additions, updates |-> updates]
    ELSE LET key == new_config[i].key IN
         IF ~KeyIn(key, old_config)
         THEN from_configs_new(old_config, new_config, i + 1,
                  Append(additions, [key |-> key, value |-> Get(new_config, key)]),
                  updates)
         ELSE IF NotEqual(Get(old_config, key), Get(new_config, key))
         THEN from_configs_new(old_config, new_config, i + 1, additions,
                  Append(updates, [key |-> key, from |-> Get(old_config, key),
                                   to |-> Get(new_config, key)]))
         ELSE from_configs_new(old_config, new_config, i + 1, additions, updates)

RECURSIVE from_configs_old(_, _, _, _)
\* the loop over old_config of from_configs, from its i-th key on
from_configs_old(old_config, new_config, i, deletions) ==
    IF i > Len(old_config) THEN deletions
    ELSE LET key == old_config[i].key IN
         IF ~KeyIn(key, new_config)
         THEN from_configs_old(old_config, new_config, i + 1, Append(deletions, key))
         ELSE from_configs_old(old_config, new_config, i + 1, deletions)

\* Delta.from_configs
from_configs(old_config, new_config) ==
    LET au == from_configs_new(old_config, new_config, 1, <<>>, <<>>)
    IN Delta(au.additions, from_configs_old(old_config, new_config, 1, <<>>), au.updates)

(***************************************************************************)
(* ConfigPatcher                                                           *)
(***************************************************************************)
\* faulty variant of DictCopy: returns the same dict object
DictCopyAlias(h, ref) == [heap |-> h, ref |-> ref]

\* d.copy(): a new dict object with the entries of heap[ref], in the same order
DictCopy(h, ref) == [heap |-> Append(h, h[ref]), ref |-> Len(h) + 1]

RECURSIVE apply_deletions(_, _, _)
\* for key in self.delta.deletions: result.pop(key, None)
apply_deletions(h, res, deletions) ==
    IF deletions = <<>> THEN h
    ELSE apply_deletions([h EXCEPT ![res] = DictPop(@, Head(deletions))],
                         res, Tail(deletions))

RECURSIVE apply_updates(_, _, _)
\* for upd in self.delta.updates: result[upd["key"]] = upd["to"]
apply_updates(h, res, updates) ==
    IF updates = <<>> THEN h
    ELSE apply_updates([h EXCEPT ![res] = DictSet(@, Head(updates).key, Head(updates).to)],
                       res, Tail(updates))

RECURSIVE apply_additions(_, _, _)
\* for add in self.delta.additions: result[add["key"]] = add["value"]
apply_additions(h, res, additions) ==
    IF additions = <<>> THEN h
    ELSE apply_additions([h EXCEPT ![res] = DictSet(@, Head(additions).key,
                                                    Head(additions).value)],
                         res, Tail(additions))

\* faulty variant of apply_loops: additions, then updates, then deletions
apply_loops_additions_first(h, res, d) ==
    apply_deletions(apply_updates(apply_additions(h, res, d.additions), res, d.updates),
                    res, d.deletions)

\* the three loops of apply on the dict of reference res, in program order
apply_loops(h, res, d) ==
    apply_additions(apply_updates(apply_deletions(h, res, d.deletions), res, d.updates),
                    res, d.additions)

\* ConfigPatcher.apply: the heap afterwards and the reference returned
apply(h, base, d) ==
    LET copied == DictCopy(h, base)
    IN [heap |-> apply_loops(copied.heap, copied.ref, d), ref |-> copied.ref]

(***************************************************************************)
(* the delta part of the __main__ script, and a patcher built by hand      *)
(***************************************************************************)
\* all dicts with n entries, keys from Keys and values from Values
DictsOfLen(n) ==
    { d \in [1..n -> [key : Keys, value : Values]] :
        \A i, j \in 1..n : i # j => d[i].key # d[j].key }

Configs == UNION { DictsOfLen(n) : n \in 0..Cardinality(Keys) }

KeyOrder == <<"a", "b", "c">>
KeyRank(k) == CHOOSE i \in 1..Len(KeyOrder) : KeyOrder[i] = k

\* the dicts whose keys were inserted in the order of KeyOrder
SortedConfigs ==
    { d \in Configs : \A i, j \in 1..Len(d) : i < j => KeyRank(d[i].key) < KeyRank(d[j].key) }

AdditionEntries == [key : Keys, value : Values]
\* apply never reads "from": one value of it is enough
UpdateEntries == [key : Keys, from : {1}, to : Values]

InitConfig ==
    /\ pc = "load"
    /\ classes = <<>>
    /\ aggregations = <<>>
    /\ xml_tree = None
    /\ xml_err = None
    /\ json_data = None
    /\ json_err = None
    /\ heap = <<>>
    /\ config = NullRef
    /\ patched_config = NullRef
    /\ base_config = NullRef
    /\ delta = None
    /\ result = NullRef

\* config = load_json(...); patched_config = load_json(...)
LoadConfigs(old, new) ==
    /\ pc = "load"
    /\ heap' = <<old, new>>
    /\ config' = 1
    /\ patched_config' = 2
    /\ pc' = "loaded"
    /\ UNCHANGED <<modelVars, base_config, delta, result>>

\* delta = Delta.from_configs(config, patched_config)
FromConfigs ==
    /\ pc = "loaded"
    /\ delta' = from_configs(heap[config], heap[patched_config])
    /\ pc' = "delta"
    /\ UNCHANGED <<modelVars, heap, config, patched_config, base_config, result>>

\* patcher = ConfigPatcher(config, delta)
NewPatcher ==
    /\ pc = "delta"
    /\ base_config' = config
    /\ pc' = "patcher"
    /\ UNCHANGED <<modelVars, heap, config, patched_config, delta, result>>

\* ConfigPatcher(base, d) on a base dict and a Delta written by hand
HandPatcher(base, d) ==
    /\ pc = "load"
    /\ heap' = <<base>>
    /\ base_config' = 1
    /\ delta' = d
    /\ pc' = "patcher"
    /\ UNCHANGED <<modelVars, config, patched_config, result>>

\* res_patched = patcher.apply()
Apply ==
    /\ pc = "patcher"
    /\ heap' = apply(heap, base_config, delta).heap
    /\ result' = apply(heap, base_config, delta).ref
    /\ pc' = "applied"
    /\ UNCHANGED <<modelVars, config, patched_config, base_config, delta>>

\* the script loads the two configurations
Load ==
    /\ pc = "load"
    /\ \E old \in Configs, new \in Configs : LoadConfigs(old, new)

\* a caller builds a patcher from a base and a delta of at most MaxEntries entries
Hand ==
    /\ pc = "load"
    /\ \E nd \in 0..MaxEntries :
         \E nu \in 0..(MaxEntries - nd) :
           \E na \in 0..(MaxEntries - nd - nu) :
             \E base \in SortedConfigs,
                dels \in [1..nd -> Keys],
                upds \in [1..nu -> UpdateEntries],
                adds \in [1..na -> AdditionEntries] :
                  HandPatcher(base, Delta(adds, dels, upds))

NextConfig ==
    \/ Load
    \/ FromConfigs
    \/ NewPatcher
    \/ Hand
    \/ Apply

SpecConfig == InitConfig /\ [][NextConfig]_vars

(***************************************************************************)
(* Vocabulary of the properties                                            *)
(***************************************************************************)
\* two dicts are equal as mappings (Python's ==, which ignores insertion order)
DictEq(d1, d2) ==
    /\ DictKeys(d1) = DictKeys(d2)
    /\ \A k \in DictKeys(d1) : Get(d1, k) = Get(d2, k)

\* positions of the entries of the list l whose key is k
EntriesOf(l, k) == { i \in 1..Len(l) : l[i].key = k }

Last(S) == CHOOSE i \in S : \A j \in S : j <= i

\* the keys of l appear in the order they have in the dict d
InOrderOf(keysOfL, d) ==
    \A i, j \in 1..Len(keysOfL) :
        i < j => IndexOf(d, keysOfL[i]) < IndexOf(d, keysOfL[j])

\* the patcher was built by the script from the two loaded configurations
MainPath == patched_config # NullRef

(***************************************************************************)
(* Properties of Delta and ConfigPatcher (SpecConfig)                      *)
(***************************************************************************)
\* C1: round trip.  When the script has applied the delta computed from
\* (config, patched_config) to config, the returned dict has the key set of
\* patched_config and, for every key, its value.
C1_RoundTrip ==
    (pc = "applied" /\ MainPath) => DictEq(heap[result], heap[patched_config])

C1_Witness ==
    /\ pc = "applied" /\ MainPath
    /\ delta.additions # <<>> /\ delta.deletions # <<>> /\ delta.updates # <<>>

\* C4: from_configs classifies every key: new-only keys give exactly one
\* addition with new's value, keys of both with different values give exactly
\* one update (from old's value to new's), keys of both with equal values give
\* nothing, old-only keys give exactly one deletion; there are no other
\* entries; additions and updates follow new's order, deletions old's order.
C4_Classification ==
    (MainPath /\ pc \in {"delta", "patcher", "applied"}) =>
        LET old == heap[config]
            new == heap[patched_config]
            dels == [i \in 1..Len(delta.deletions) |-> [key |-> delta.deletions[i]]]
        IN /\ \A k \in Keys :
                /\ Cardinality(EntriesOf(delta.additions, k)) =
                       IF HasKey(new, k) /\ ~HasKey(old, k) THEN 1 ELSE 0
                /\ \A i \in EntriesOf(delta.additions, k) :
                       delta.additions[i] = [key |-> k, value |-> Get(new, k)]
                /\ Cardinality(EntriesOf(delta.updates, k)) =
                       IF HasKey(new, k) /\ HasKey(old, k) /\ Get(old, k) # Get(new, k)
                       THEN 1 ELSE 0
                /\ \A i \in EntriesOf(delta.updates, k) :
                       delta.updates[i] =
                           [key |-> k, from |-> Get(old, k), to |-> Get(new, k)]
                /\ Cardinality(EntriesOf(dels, k)) =
                       IF HasKey(old, k) /\ ~HasKey(new, k) THEN 1 ELSE 0
           /\ \A i \in 1..Len(delta.additions) : delta.additions[i].key \in Keys
           /\ \A i \in 1..Len(delta.updates) : delta.updates[i].key \in Keys
           /\ \A i \in 1..Len(dels) : dels[i].key \in Keys
           /\ InOrderOf([i \in 1..Len(delta.additions) |-> delta.additions[i].key], new)
           /\ InOrderOf([i \in 1..Len(delta.updates) |-> delta.updates[i].key], new)
           /\ InOrderOf(delta.deletions, old)

\* two deletions in old's order (not the alphabetical one), an addition
C4_Witness ==
    /\ pc = "delta"
    /\ delta.deletions = <<"c", "a">>
    /\ Len(delta.additions) = 1

\* C5: the delta of two equal configurations has no additions, no deletions
\* and no updates.
C5_EmptyDelta ==
    (pc = "delta" /\ DictEq(heap[config], heap[patched_config])) =>
        /\ delta.additions = <<>>
        /\ delta.deletions = <<>>
        /\ delta.updates = <<>>

C5_Witness ==
    /\ pc = "delta"
    /\ heap[config] = heap[patched_config]
    /\ Len(heap[config]) = Cardinality(Keys)

\* C6: apply treats any delta in the order deletions, updates, additions: a
\* key with an addition ends with the value of its last addition; otherwise a
\* key with an update ends with the "to" of its last update; otherwise a
\* deleted key is absent; every other key is as in the base.
C6_PhaseOrder ==
    (pc = "applied") =>
        \A k \in Keys :
            LET res == heap[result]
                adds == EntriesOf(delta.additions, k)
                upds == EntriesOf(delta.updates, k)
            IN IF adds # {}
               THEN HasKey(res, k) /\ Get(res, k) = delta.additions[Last(adds)].value
               ELSE IF upds # {}
               THEN HasKey(res, k) /\ Get(res, k) = delta.updates[Last(upds)].to
               ELSE IF \E i \in 1..Len(delta.deletions) : delta.deletions[i] = k
               THEN ~HasKey(res, k)
               ELSE /\ HasKey(res, k) <=> HasKey(heap[base_config], k)
                    /\ HasKey(res, k) => Get(res, k) = Get(heap[base_config], k)

\* a key of the base that is deleted, updated and added, with different values
C6_Witness ==
    /\ pc = "applied"
    /\ \E k \in DictKeys(heap[base_config]) :
          /\ \E i \in 1..Len(delta.deletions) : delta.deletions[i] = k
          /\ \E i \in EntriesOf(delta.updates, k), j \in EntriesOf(delta.additions, k) :
                delta.updates[i].to # delta.additions[j].value

\* C7: apply leaves the base dict, the patcher's reference to it and the
\* three lists of the delta as they were.
C7_BaseUnchanged ==
    [][(pc = "patcher" /\ pc' = "applied") =>
          /\ base_config' = base_config
          /\ heap'[base_config] = heap[base_config]
          /\ delta' = delta]_vars

\* apply has returned a dict that differs from the base
C7_Witness ==
    /\ pc = "applied"
    /\ result # base_config
    /\ ~DictEq(heap[result], heap[base_config])

(***************************************************************************)
(* Vocabulary of the properties of the builders                            *)
(***************************************************************************)
\* the classes an aggregation nests directly in class c (edges target -> source)
NestedIn(c) ==
    { aggregations[i].source : i \in { j \in 1..Len(aggregations) : aggregations[j].target = c } }

RECURSIVE Closure(_)
\* the classes of S and everything nested in them, directly or not
Closure(S) ==
    LET next == S \cup UNION { NestedIn(c) : c \in S }
    IN IF next = S THEN S ELSE Closure(next)

RootNames == { classes[i].key : i \in { j \in 1..Len(classes) : classes[j].value.is_root } }

ExactlyOneRoot == Cardinality(RootNames) = 1

\* the classes reachable from the root class, the root included
Reachable == Closure(RootNames)

\* c is its own ancestor
OwnAncestor(c) == c \in Closure(NestedIn(c))

Resolved ==
    \A i \in 1..Len(aggregations) :
        /\ aggregations[i].source \in DictKeys(classes)
        /\ aggregations[i].target \in DictKeys(classes)

\* exactly one root, no cycle, every aggregation endpoint is a class
ValidModel ==
    /\ ExactlyOneRoot
    /\ \A c \in Names : ~OwnAncestor(c)
    /\ Resolved

XmlBuilt == pc \in {"xml", "done"}
JsonBuilt == pc \in {"json", "done"}

RECURSIVE Nodes(_)
\* the elements of the tree rooted at element e
Nodes(e) == {e} \cup UNION { Nodes(e.children[i]) : i \in 1..Len(e.children) }

\* the elements made for classes: add_attributes gives every other one a text
ClassNodes(e) == { n \in Nodes(e) : n.text = None }

XmlClassTags == { n.tag : n \in ClassNodes(xml_tree) }

JsonClassNames == { json_data[i].class : i \in 1..Len(json_data) }

\* the sources of the aggregations whose target is c, in list order
SourcesNestedIn(c) ==
    LET sel == SelectSeq(aggregations, LAMBDA a : a.target = c)
    IN [i \in 1..Len(sel) |-> sel[i].source]

HasDotDot(s) == \E p \in 1..(Len(s) - 1) : s[p] = "." /\ s[p + 1] = "."

(***************************************************************************)
(* Properties of BuilderXML and BuilderJSON (SpecModel)                    *)
(***************************************************************************)
\* C2: when a class reachable from the root is its own ancestor, building the
\* tree fails with CyclicAggregationError.
C2_CycleError ==
    (pc = "xml" /\ ExactlyOneRoot /\ Resolved /\ \E c \in Reachable : OwnAncestor(c))
        => xml_err = "CyclicAggregationError"

\* C3 as stated: for a valid model both builders succeed and each output has
\* an entry for exactly the classes reachable from the root.
C3_BothExactlyReachable ==
    ValidModel =>
        /\ XmlBuilt => (xml_err = None /\ XmlClassTags = Reachable)
        /\ JsonBuilt => (json_err = None /\ JsonClassNames = Reachable)

\* C3 amended: for a valid model both builders succeed; the tree has an
\* element for exactly the classes reachable from the root, and the JSON list
\* has one descriptor for every class of the repository, reachable or not.
C3_XmlReachableJsonAll ==
    ValidModel =>
        /\ XmlBuilt => (xml_err = None /\ XmlClassTags = Reachable)
        /\ JsonBuilt =>
              /\ json_err = None
              /\ Len(json_data) = Len(classes)
              /\ JsonClassNames = DictKeys(classes)

\* both outputs of a valid model with a nested class and an unreachable one
C3_Witness ==
    /\ pc = "done"
    /\ ValidModel
    /\ Cardinality(Reachable) >= 2
    /\ Reachable # DictKeys(classes)

\* C8: build raises the no-root exception, and returns no tree, exactly when
\* no class has is_root.
C8_NoRoot ==
    (pc = "xml") =>
        /\ (xml_err = NoRootException) <=> (RootNames = {})
        /\ (xml_err = NoRootException) => (xml_tree = None)

C8_Witness ==
    /\ pc = "xml"
    /\ xml_err = NoRootException
    /\ Len(classes) >= 2
    /\ aggregations # <<>>

\* C9: in the tree, the children of every element made for a class C are the
\* elements of C's attributes followed by one class element per aggregation
\* whose target is C, tagged with its source, in aggregation-list order.
C9_Children ==
    (XmlBuilt /\ xml_err = None) =>
        \A n \in ClassNodes(xml_tree) :
            LET attrs == Get(classes, n.tag).attributes
                srcs == SourcesNestedIn(n.tag)
            IN /\ Len(n.children) = Len(attrs) + Len(srcs)
               /\ \A i \in 1..Len(attrs) :
                     /\ n.children[i].tag = attrs[i].key
                     /\ n.children[i].text = attrs[i].value
                     /\ n.children[i].children = <<>>
               /\ \A j \in 1..Len(srcs) :
                     /\ n.children[Len(attrs) + j].tag = srcs[j]
                     /\ n.children[Len(attrs) + j].text = None

\* an element with attribute elements and two class children
C9_Witness ==
    /\ XmlBuilt /\ xml_err = None
    /\ \E n \in ClassNodes(xml_tree) :
          /\ Get(classes, n.tag).attributes # <<>>
          /\ Len(SourcesNestedIn(n.tag)) >= 2

\* C10: a descriptor has min and max exactly when its class is the source of
\* some aggregation, and they come from the sourceMultiplicity of the last
\* such aggregation: for "N..M" min is N and max is M, for a string without
\* ".." both are the whole string.
C10_MinMax ==
    (JsonBuilt /\ json_err = None) =>
        \A i \in 1..Len(json_data) :
            LET d == json_data[i]
                from == { j \in 1..Len(aggregations) : aggregations[j].source = d.class }
            IN /\ ("min" \in DOMAIN d) <=> (from # {})
               /\ ("max" \in DOMAIN d) <=> (from # {})
               /\ from # {} =>
                     LET m == aggregations[Last(from)].sourceMultiplicity
                     IN IF HasDotDot(m)
                        THEN /\ d.min \o <<".", ".">> \o d.max = m
                             /\ ~HasDotDot(d.min) /\ ~HasDotDot(d.max)
                        ELSE d.min = m /\ d.max = m

\* a class that is the source of two aggregations with different multiplicities
\* next to a class that is the source of none
C10_Witness ==
    /\ JsonBuilt /\ json_err = None
    /\ \E i, j \in 1..Len(aggregations) :
          /\ i < j
          /\ aggregations[i].source = aggregations[j].source
          /\ aggregations[i].sourceMultiplicity # aggregations[j].sourceMultiplicity
          /\ HasKey(classes, aggregations[i].source)
    /\ \E k \in 1..Len(json_data) : "min" \notin DOMAIN json_data[k]

====
